---- MODULE Spec2Model ----
(***************************************************************************)
(* A model of the 2048 game of src/2048_tk.py: the pure board helpers      *)
(* (compress, merge, rotate, the four moves, the terminal tests) and the   *)
(* session kept by GameUI (board, score, size, goal).                      *)
(*                                                                         *)
(* A board is a sequence of rows, a row a sequence of cells; indices are   *)
(* 1-based here and 0-based in the source, so source cell (r, c) is        *)
(* board[r+1][c+1]: row 1 is the top row, column 1 the left column.        *)
(***************************************************************************)
EXTENDS Integers, Sequences, FiniteSets, TLC

VARIABLES
    size,    \* GameUI.size
    goal,    \* GameUI.goal
    board,   \* GameUI.board; in SpecEngine the board handed to the engine
    score,   \* GameUI.score
    popup,   \* the notice the last draw_board ended with
    moves,   \* accepted moves since the board was last initialised
    call,    \* the last operation: its arguments, locals and results
    row      \* in SpecRow the row handed to the row operations

vars == <<size, goal, board, score, popup, moves, call, row>>

(***************************************************************************)
(* Bounds of the model.                                                    *)
(***************************************************************************)
\* Largest board side of a session and of an engine input board.
MaxSize == 2
\* Row inputs hold tiles 2^1 .. 2^MaxExp.
MaxExp == 2
\* Longest row handed to the row operations.
MaxLen == 4
\* Accepted moves explored per session before only restart and no-op
\* requests remain.
MaxMoves == 2
\* The goal of the sessions explored: small enough to be reached.
SmallGoal == 8
\* Accepted moves allowed to a session played to its end; the play of
\* SpecPlay ends before it has made that many.
MaxPlay == 40
\* The states of the global random generator told apart: 0 .. MaxSeed.
MaxSeed == 1
\* Most tiles on a board handed to a repeated move.
MaxTiles == 3

(***************************************************************************)
(* Program constants.                                                      *)
(***************************************************************************)
\* goal = 2048 (the default of reached_goal, GameUI.__init__ and main)
DefaultGoal == 2048

Directions == {"left", "right", "up", "down"}

\* Direction values apply_move has no branch for.
InvalidDirections == {"diagonal"}

Sizes == 2..MaxSize

\* The sizes a caller can hand to GameUI and init_game: neither tests its
\* argument, so sizes below 2 are among them.
RequestedSizes == 0..MaxSize


RECURSIVE Pow2(_)
Pow2(e) == IF e = 0 THEN 1 ELSE 2 * Pow2(e - 1)

TileValues == {0} \cup {Pow2(e) : e \in 1..MaxExp}

\* value = 4 if rnd() < 0.1 else 2
SpawnValues == {2, 4}

\* The goals handed to draw_board on its own: a fresh tile's value, so that
\* a win happens on the boards explored, and the default, so that a loss does.
Goals == {4, DefaultGoal}

(***************************************************************************)
(* Board helpers.  Lists and tuples of the source are sequences; List      *)
(* builds the sequence <<Op(1), ..., Op(n)>> as a comprehension does.      *)
(***************************************************************************)
List(n, Op(_)) ==
    LET F[k \in 0..n] == IF k = 0 THEN <<>> ELSE Append(F[k - 1], Op(k))
    IN  F[n]

empty_board(n) == List(n, LAMBDA r : List(n, LAMBDA c : 0))

board_to_list(b) == List(Len(b), LAMBDA r : List(Len(b[r]), LAMBDA c : b[r][c]))

list_to_board(lst) == List(Len(lst), LAMBDA r : List(Len(lst[r]), LAMBDA c : lst[r][c]))

\* row-major order, as the nested loops of the generator produce it
iter_positions(b) ==
    LET n == Len(b)
    IN  List(n * n, LAMBDA k : <<((k - 1) \div n) + 1, ((k - 1) % n) + 1>>)

get_empty_positions(b) ==
    LET ps == iter_positions(b)
        F[k \in 0..Len(ps)] ==
            IF k = 0 THEN <<>>
            ELSE IF b[ps[k][1]][ps[k][2]] = 0 THEN Append(F[k - 1], ps[k])
                 ELSE F[k - 1]
    IN  F[Len(ps)]

\* lst[r][c] = value
SetCell(b, p, v) ==
    List(Len(b), LAMBDA r :
        List(Len(b[r]), LAMBDA c : IF r = p[1] /\ c = p[2] THEN v ELSE b[r][c]))

\* The outcomes of add_random_tile: the board itself with added = <<>> (None)
\* when no cell is empty, else every empty cell with either value.
add_random_tile(b) ==
    LET empties == get_empty_positions(b)
    IN  IF empties = <<>>
        THEN {[board |-> b, added |-> <<>>]}
        ELSE {[board |-> list_to_board(SetCell(board_to_list(b), empties[k], v)),
               added |-> <<empties[k][1], empties[k][2], v>>] :
                 k \in 1..Len(empties), v \in SpawnValues}

\* The values rnd() returns, in hundredths: one below 0.1, one above.
Draws == {5, 50}

\* The states of the generator behind random.choice.
GlobalStates == 0..MaxSeed

\* add_random_tile(board, rnd) with its two sources of randomness named:
\* r, c = random.choice(empties) reads the module-level generator, in state
\* seed, and picks one of the empties; value = 4 if rnd() < 0.1 else 2 reads
\* the injected rnd, which returns draw.
add_random_tile_drawn(b, seed, draw) ==
    LET empties == get_empty_positions(b)
    IN  IF empties = <<>>
        THEN [board |-> b, added |-> <<>>]
        ELSE LET p == empties[(seed % Len(empties)) + 1]
                 value == IF draw < 10 THEN 4 ELSE 2
             IN  [board |-> list_to_board(SetCell(board_to_list(b), p, value)),
                  added |-> <<p[1], p[2], value>>]

(***************************************************************************)
(* Row operations.                                                         *)
(***************************************************************************)
\* [x for x in row if x != 0]
NonZeros(r) ==
    LET F[k \in 0..Len(r)] ==
            IF k = 0 THEN <<>>
            ELSE IF r[k] # 0 THEN Append(F[k - 1], r[k]) ELSE F[k - 1]
    IN  F[Len(r)]

compress_row_left(r) ==
    LET new == NonZeros(r)
    IN  List(Len(r), LAMBDA k : IF k <= Len(new) THEN new[k] ELSE 0)

\* MergeStep without row[i+1] = 0: the second tile of a pair stays.
MergeStep_keep(st, i) ==
    IF st.row[i] # 0 /\ st.row[i] = st.row[i + 1]
    THEN [row   |-> List(Len(st.row), LAMBDA k :
                        IF k = i THEN 2 * st.row[i] ELSE st.row[k]),
          score |-> st.score + 2 * st.row[i]]
    ELSE st

\* MergeStep with the score added before the tile is doubled.
MergeStep_prescore(st, i) ==
    IF st.row[i] # 0 /\ st.row[i] = st.row[i + 1]
    THEN [row   |-> List(Len(st.row), LAMBDA k :
                        IF k = i THEN 2 * st.row[i] ELSE IF k = i + 1 THEN 0 ELSE st.row[k]),
          score |-> st.score + st.row[i]]
    ELSE st

\* MergeStep with row[i] += 2 for row[i] *= 2.
MergeStep_add(st, i) ==
    IF st.row[i] # 0 /\ st.row[i] = st.row[i + 1]
    THEN [row   |-> List(Len(st.row), LAMBDA k :
                        IF k = i THEN st.row[i] + 2 ELSE IF k = i + 1 THEN 0 ELSE st.row[k]),
          score |-> st.score + st.row[i] + 2]
    ELSE st

\* One iteration of the loop of merge_row_left at 1-based index i.
MergeStep(st, i) ==
    IF st.row[i] # 0 /\ st.row[i] = st.row[i + 1]
    THEN [row   |-> List(Len(st.row), LAMBDA k :
                        IF k = i THEN 2 * st.row[i] ELSE IF k = i + 1 THEN 0 ELSE st.row[k]),
          score |-> st.score + 2 * st.row[i]]
    ELSE st

merge_row_left(r) ==
    LET start == [row |-> compress_row_left(r), score |-> 0]
        Loop[i \in 0..Len(r)] ==
            IF i = 0 THEN start ELSE MergeStep(Loop[i - 1], i)
        done == IF Len(r) = 0 THEN start ELSE Loop[Len(r) - 1]
    IN  [row |-> compress_row_left(done.row), score |-> done.score]

SumSeq(s) ==
    LET F[k \in 0..Len(s)] == IF k = 0 THEN 0 ELSE F[k - 1] + s[k]
    IN  F[Len(s)]

\* move_left with changed taken from the score: a slide alone is missed.
move_left_scored(b) ==
    LET lst == board_to_list(b)
        merged == List(Len(lst), LAMBDA i : merge_row_left(lst[i]))
        total_score == SumSeq(List(Len(lst), LAMBDA i : merged[i].score))
    IN  [board   |-> list_to_board(List(Len(lst), LAMBDA i : merged[i].row)),
         changed |-> total_score > 0,
         gained  |-> total_score]

move_left(b) ==
    LET lst == board_to_list(b)
        merged == List(Len(lst), LAMBDA i : merge_row_left(lst[i]))
    IN  [board   |-> list_to_board(List(Len(lst), LAMBDA i : merged[i].row)),
         changed |-> \E i \in 1..Len(lst) : merged[i].row # lst[i],
         gained  |-> SumSeq(List(Len(lst), LAMBDA i : merged[i].score))]

rotate_cw(b) ==
    LET n == Len(b)
    IN  list_to_board(List(n, LAMBDA r : List(n, LAMBDA c : b[n + 1 - c][r])))

rotate_ccw(b) ==
    LET n == Len(b)
    IN  list_to_board(List(n, LAMBDA r : List(n, LAMBDA c : b[c][n + 1 - r])))

Reversed(r) == List(Len(r), LAMBDA k : r[Len(r) + 1 - k])

move_right(b) ==
    LET temp_board == list_to_board(List(Len(b), LAMBDA i : Reversed(b[i])))
        m == move_left(temp_board)
    IN  [board   |-> list_to_board(List(Len(b), LAMBDA i : Reversed(m.board[i]))),
         changed |-> m.changed,
         gained  |-> m.gained]

\* move_up rotating clockwise again where it should rotate back.
move_up_cw_twice(b) ==
    LET m == move_left(rotate_cw(b))
    IN  [board |-> rotate_cw(m.board), changed |-> m.changed, gained |-> m.gained]

move_up(b) ==
    LET m == move_left(rotate_cw(b))
    IN  [board |-> rotate_ccw(m.board), changed |-> m.changed, gained |-> m.gained]

move_down(b) ==
    LET m == move_left(rotate_ccw(b))
    IN  [board |-> rotate_cw(m.board), changed |-> m.changed, gained |-> m.gained]

\* any_moves_possible with the test for empty cells inverted.
any_moves_possible_inverted(b) ==
    LET n == Len(b)
    IN  \/ get_empty_positions(b) = <<>>
        \/ \E r \in 1..n, c \in 1..(n - 1) : b[r][c] = b[r][c + 1]
        \/ \E c \in 1..n, r \in 1..(n - 1) : b[r][c] = b[r + 1][c]

any_moves_possible(b) ==
    LET n == Len(b)
    IN  \/ get_empty_positions(b) # <<>>
        \/ \E r \in 1..n, c \in 1..(n - 1) : b[r][c] = b[r][c + 1]
        \/ \E c \in 1..n, r \in 1..(n - 1) : b[r][c] = b[r + 1][c]

reached_goal(b, g) ==
    LET ps == iter_positions(b)
    IN  \E k \in 1..Len(ps) : b[ps[k][1]][ps[k][2]] >= g

\* raise ValueError("Invalid direction"): what apply_move gives in place of
\* a result.
ValueError == [raised |-> "Invalid direction"]

\* apply_move ending in a plain else: any other direction moves down.
apply_move_else_down(b, direction) ==
    CASE direction = "left"  -> move_left(b)
      [] direction = "right" -> move_right(b)
      [] direction = "up"    -> move_up(b)
      [] OTHER               -> move_down(b)

apply_move(b, direction) ==
    CASE direction = "left"  -> move_left(b)
      [] direction = "right" -> move_right(b)
      [] direction = "up"    -> move_up(b)
      [] direction = "down"  -> move_down(b)
      [] OTHER               -> ValueError

\* init_game with one add_random_tile.
init_game_one(n) == {t1.board : t1 \in add_random_tile(empty_board(n))}

\* The two tiles of init_game: every board it can return.
init_game(n) ==
    {t2.board : t2 \in UNION {add_random_tile(t1.board) : t1 \in add_random_tile(empty_board(n))}}

\* draw_board with the loss tested before the win.
draw_board_loss_first(b, g) ==
    IF ~any_moves_possible(b) THEN "Game over"
    ELSE IF reached_goal(b, g) THEN "You win!"
    ELSE "none"

\* The notice draw_board ends with: win is tested first, then loss.
draw_board(b, g) ==
    IF reached_goal(b, g) THEN "You win!"
    ELSE IF ~any_moves_possible(b) THEN "Game over"
    ELSE "none"

(***************************************************************************)
(* The session: GameUI.__init__, GameUI.restart, GameUI.perform_move.      *)
(***************************************************************************)
SessionGoals == {SmallGoal}

\* What init_game(n) followed by draw_board under goal g can leave: the
\* board of two fresh tiles and the notice drawn for it.
NewGames ==
    [n \in RequestedSizes |-> [g \in SessionGoals |->
        {[board |-> b, popup |-> draw_board(b, g)] : b \in init_game(n)}]]

\* GameUI.__init__: score 0, the board of init_game(size), then draw_board.
Init ==
    /\ size \in Sizes
    /\ goal \in SessionGoals
    /\ score = 0
    /\ \E g \in NewGames[size][goal] : board = g.board /\ popup = g.popup
    /\ moves = 0
    /\ call = [op |-> "__init__"]
    /\ row = <<>>

restart ==
    /\ score' = 0
    /\ \E g \in NewGames[size][goal] : board' = g.board /\ popup' = g.popup
    /\ moves' = 0
    /\ call' = [op |-> "restart", before |-> [size |-> size, goal |-> goal]]
    /\ UNCHANGED <<size, goal, row>>

\* An exception raised by apply_move leaves the method that called it at
\* once: nothing of the session is assigned, nothing is drawn.
raised_in(method, direction) ==
    /\ call' = [op |-> "ValueError", in |-> method, direction |-> direction]
    /\ UNCHANGED <<size, goal, board, score, popup, moves, row>>

\* perform_move without self.score += gained.
perform_move_unscored(direction) ==
    LET m == apply_move(board, direction)
    IN  IF m = ValueError THEN raised_in("perform_move", direction)
        ELSE IF ~m.changed
        THEN /\ call' = [op |-> "perform_move", direction |-> direction,
                         new_board |-> m.board, changed |-> FALSE, gained |-> m.gained,
                         added |-> <<>>]
             /\ UNCHANGED <<size, goal, board, score, popup, moves, row>>
        ELSE /\ moves < MaxMoves
             /\ score' = score
             /\ \E t \in add_random_tile(m.board) :
                    /\ board' = t.board
                    /\ call' = [op |-> "perform_move", direction |-> direction,
                                new_board |-> m.board, changed |-> TRUE,
                                gained |-> m.gained, added |-> t.added]
             /\ popup' = draw_board(board', goal)
             /\ moves' = moves + 1
             /\ UNCHANGED <<size, goal, row>>

\* perform_move with self.score = gained in place of +=.
perform_move_score_assigned(direction) ==
    LET m == apply_move(board, direction)
    IN  IF m = ValueError THEN raised_in("perform_move", direction)
        ELSE IF ~m.changed
        THEN /\ call' = [op |-> "perform_move", direction |-> direction,
                         new_board |-> m.board, changed |-> FALSE, gained |-> m.gained,
                         added |-> <<>>]
             /\ UNCHANGED <<size, goal, board, score, popup, moves, row>>
        ELSE /\ moves < MaxMoves
             /\ score' = m.gained
             /\ \E t \in add_random_tile(m.board) :
                    /\ board' = t.board
                    /\ call' = [op |-> "perform_move", direction |-> direction,
                                new_board |-> m.board, changed |-> TRUE,
                                gained |-> m.gained, added |-> t.added]
             /\ popup' = draw_board(board', goal)
             /\ moves' = moves + 1
             /\ UNCHANGED <<size, goal, row>>

\* perform_move returning early once the goal is reached.
perform_move_until_won(direction) ==
    LET m == apply_move(board, direction)
    IN  IF m = ValueError THEN raised_in("perform_move", direction)
        ELSE IF ~m.changed \/ reached_goal(board, goal)
        THEN /\ call' = [op |-> "perform_move", direction |-> direction,
                         new_board |-> m.board, changed |-> FALSE, gained |-> m.gained,
                         added |-> <<>>]
             /\ UNCHANGED <<size, goal, board, score, popup, moves, row>>
        ELSE /\ moves < MaxMoves
             /\ score' = score + m.gained
             /\ \E t \in add_random_tile(m.board) :
                    /\ board' = t.board
                    /\ call' = [op |-> "perform_move", direction |-> direction,
                                new_board |-> m.board, changed |-> TRUE,
                                gained |-> m.gained, added |-> t.added]
             /\ popup' = draw_board(board', goal)
             /\ moves' = moves + 1
             /\ UNCHANGED <<size, goal, row>>

\* perform_move without the early return: it spawns after every request.
perform_move_unguarded(direction) ==
    LET m == apply_move(board, direction)
    IN  IF m = ValueError THEN raised_in("perform_move", direction)
        ELSE
        /\ moves < MaxMoves
        /\ score' = score + m.gained
        /\ \E t \in add_random_tile(m.board) :
               /\ board' = t.board
               /\ call' = [op |-> "perform_move", direction |-> direction,
                           new_board |-> m.board, changed |-> m.changed,
                           gained |-> m.gained, added |-> t.added]
        /\ popup' = draw_board(board', goal)
        /\ moves' = moves + 1
        /\ UNCHANGED <<size, goal, row>>

\* perform_move without the spawn: the moved board is stored as it is.
perform_move_within_unspawned(direction, cap) ==
    LET m == apply_move(board, direction)
    IN  IF m = ValueError THEN raised_in("perform_move", direction)
        ELSE IF ~m.changed
        THEN /\ call' = [op |-> "perform_move", direction |-> direction,
                         new_board |-> m.board, changed |-> FALSE, gained |-> m.gained,
                         added |-> <<>>]
             /\ UNCHANGED <<size, goal, board, score, popup, moves, row>>
        ELSE /\ moves < cap
             /\ score' = score + m.gained
             /\ board' = m.board
             /\ call' = [op |-> "perform_move", direction |-> direction,
                         new_board |-> m.board, changed |-> TRUE,
                         gained |-> m.gained, added |-> <<>>]
             /\ popup' = draw_board(board', goal)
             /\ moves' = moves + 1
             /\ UNCHANGED <<size, goal, row>>

\* The early return leaves the session alone and draws nothing; an accepted
\* move adds the score, spawns, stores the board and draws it.  call keeps
\* the locals: new_board is the board apply_move returned, before the spawn.
\* At most cap moves are accepted.
perform_move_within(direction, cap) ==
    LET m == apply_move(board, direction)
    IN  IF m = ValueError THEN raised_in("perform_move", direction)
        ELSE IF ~m.changed
        THEN /\ call' = [op |-> "perform_move", direction |-> direction,
                         new_board |-> m.board, changed |-> FALSE, gained |-> m.gained,
                         added |-> <<>>]
             /\ UNCHANGED <<size, goal, board, score, popup, moves, row>>
        ELSE /\ moves < cap
             /\ score' = score + m.gained
             /\ \E t \in add_random_tile(m.board) :
                    /\ board' = t.board
                    /\ call' = [op |-> "perform_move", direction |-> direction,
                                new_board |-> m.board, changed |-> TRUE,
                                gained |-> m.gained, added |-> t.added]
             /\ popup' = draw_board(board', goal)
             /\ moves' = moves + 1
             /\ UNCHANGED <<size, goal, row>>

\* perform_move in the sessions of Spec: MaxMoves accepted moves at most.
perform_move(direction) == perform_move_within(direction, MaxMoves)

Next ==
    \/ restart
    \/ \E direction \in Directions \cup InvalidDirections : perform_move(direction)

Spec == Init /\ [][Next]_vars

(***************************************************************************)
(* The session from the request on: GameUI is asked for a size, which may  *)
(* be below 2, builds the session, and the session is then used.           *)
(***************************************************************************)
\* Before the constructor runs: size is its argument, no board exists.
ConfigInit ==
    /\ size \in RequestedSizes
    /\ goal \in SessionGoals
    /\ score = 0
    /\ board = <<>>
    /\ popup = "none"
    /\ moves = 0
    /\ call = [op |-> "none"]
    /\ row = <<>>

\* GameUI.__init__(root, size, goal): self.size = size, self.score = 0,
\* self.board, _ = init_game(size), draw_board.  No statement tests size.
GameUI_init ==
    /\ call.op = "none"
    /\ score' = 0
    /\ \E g \in NewGames[size][goal] : board' = g.board /\ popup' = g.popup
    /\ moves' = 0
    /\ call' = [op |-> "__init__"]
    /\ UNCHANGED <<size, goal, row>>

ConfigNext ==
    \/ GameUI_init
    \/ call.op # "none" /\ Next

SpecConfig == ConfigInit /\ [][ConfigNext]_vars

(***************************************************************************)
(* A session played to its end: the smallest board, no restart, any        *)
(* sequence of move requests, as long as the player likes.                 *)
(***************************************************************************)
PlayInit ==
    /\ size = 2
    /\ goal \in SessionGoals
    /\ score = 0
    /\ \E g \in NewGames[size][goal] : board = g.board /\ popup = g.popup
    /\ moves = 0
    /\ call = [op |-> "__init__"]
    /\ row = <<>>

PlayNext == \E direction \in Directions : perform_move_within(direction, MaxPlay)

SpecPlay == PlayInit /\ [][PlayNext]_vars

(***************************************************************************)
(* The engine on its own: any board of tiles, one call of a pure function. *)
(***************************************************************************)
\* The boards handed to the engine hold fresh tiles: 0, 2 and 4.
AllBoards(n) == {list_to_board(f) : f \in [1..n -> [1..n -> {0} \cup SpawnValues]]}

EngineInit ==
    /\ size \in Sizes
    /\ board \in AllBoards(size)
    /\ goal = DefaultGoal
    /\ score = 0
    /\ popup = "none"
    /\ moves = 0
    /\ call = [op |-> "none"]
    /\ row = <<>>

CallApplyMove(direction) ==
    /\ call.op = "none"
    /\ LET m == apply_move(board, direction)
       IN  call' = [op |-> "apply_move", direction |-> direction, new_board |-> m.board,
                    changed |-> m.changed, gained |-> m.gained]
    /\ UNCHANGED <<size, goal, board, score, popup, moves, row>>

CallDrawBoard(g) ==
    /\ call.op = "none"
    /\ goal' = g
    /\ popup' = draw_board(board, g)
    /\ call' = [op |-> "draw_board"]
    /\ UNCHANGED <<size, board, score, moves, row>>

EngineNext ==
    \/ \E direction \in Directions : CallApplyMove(direction)
    \/ \E g \in Goals : CallDrawBoard(g)

SpecEngine == EngineInit /\ [][EngineNext]_vars

(***************************************************************************)
(* The spawn with its randomness named: add_random_tile called on the same *)
(* board with the same draw of the injected rnd, once in each of two       *)
(* states of the global generator.                                         *)
(***************************************************************************)
SpawnInit ==
    /\ size \in Sizes
    /\ board \in AllBoards(size)
    /\ goal = DefaultGoal
    /\ score = 0
    /\ popup = "none"
    /\ moves = 0
    /\ call = [op |-> "none"]
    /\ row = <<>>

CallAddRandomTile(draw, seed1, seed2) ==
    /\ call.op = "none"
    /\ call' = [op |-> "add_random_tile", rnd |-> draw,
                first  |-> add_random_tile_drawn(board, seed1, draw),
                second |-> add_random_tile_drawn(board, seed2, draw)]
    /\ UNCHANGED <<size, goal, board, score, popup, moves, row>>

SpawnNext == \E draw \in Draws, seed1, seed2 \in GlobalStates : CallAddRandomTile(draw, seed1, seed2)

SpecSpawn == SpawnInit /\ [][SpawnNext]_vars

(***************************************************************************)
(* The row operations on their own: any row of tiles, one call.            *)
(***************************************************************************)
AllRows == UNION {{List(n, LAMBDA k : f[k]) : f \in [1..n -> TileValues]} : n \in 1..MaxLen}

RowInit ==
    /\ row \in AllRows
    /\ size = 2
    /\ board = empty_board(size)
    /\ goal = DefaultGoal
    /\ score = 0
    /\ popup = "none"
    /\ moves = 0
    /\ call = [op |-> "none"]

CallCompressRow ==
    /\ call.op = "none"
    /\ call' = [op |-> "compress_row_left", new |-> compress_row_left(row)]
    /\ UNCHANGED <<size, goal, board, score, popup, moves, row>>

CallMergeRow ==
    /\ call.op = "none"
    /\ LET m == merge_row_left(row)
       IN  call' = [op |-> "merge_row_left", new |-> m.row, score |-> m.score]
    /\ UNCHANGED <<size, goal, board, score, popup, moves, row>>

RowNext ==
    \/ CallCompressRow
    \/ CallMergeRow

SpecRow == RowInit /\ [][RowNext]_vars

(***************************************************************************)
(* A move repeated: the same direction applied again to the board a move   *)
(* returned, with no spawn in between.  The boards are one side larger     *)
(* than the engine's and hold few tiles.                                   *)
(***************************************************************************)
RepeatSizes == 2..(MaxSize + 1)

\* The ways to pick j of the cells 1..m, in row-major order.
Ascending(m, j) == {ps \in [1..j -> 1..m] : \A i \in 1..(j - 1) : ps[i] < ps[i + 1]}

\* The board of side n with tile vs[j] in cell ps[j] and zeros elsewhere.
TilesAt(n, ps, vs) ==
    List(n, LAMBDA r : List(n, LAMBDA c :
        LET at == {j \in DOMAIN ps : ps[j] = (r - 1) * n + c}
        IN  IF at = {} THEN 0 ELSE vs[CHOOSE j \in at : TRUE]))

\* The boards of side n with at most k tiles, each a fresh tile's value.
SparseBoards(n, k) ==
    UNION {{TilesAt(n, ps, vs) : ps \in Ascending(n * n, j), vs \in [1..j -> SpawnValues]} :
              j \in 0..k}

\* The board after k applications of a direction.
RECURSIVE Repeated(_, _, _)
Repeated(b, direction, k) ==
    IF k = 0 THEN b ELSE apply_move(Repeated(b, direction, k - 1), direction).board

RepeatInit ==
    /\ size \in RepeatSizes
    /\ board \in SparseBoards(size, MaxTiles)
    /\ goal = DefaultGoal
    /\ score = 0
    /\ popup = "none"
    /\ moves = 0
    /\ call = [op |-> "none"]
    /\ row = <<>>

\* new_board, changed, gained = apply_move(board, direction), and the same
\* once more on new_board.
CallApplyMoveTwice(direction) ==
    /\ call.op = "none"
    /\ LET first  == apply_move(board, direction)
           second == apply_move(first.board, direction)
       IN  call' = [op |-> "apply_move twice", direction |-> direction,
                    first |-> first, second |-> second]
    /\ UNCHANGED <<size, goal, board, score, popup, moves, row>>

RepeatNext == \E direction \in Directions : CallApplyMoveTwice(direction)

SpecRepeat == RepeatInit /\ [][RepeatNext]_vars

(***************************************************************************)
(* Vocabulary of the properties.                                           *)
(***************************************************************************)
Cells(b) == {<<r, c>> : r \in 1..Len(b), c \in 1..Len(b)}

IsSquare(b, n) == Len(b) = n /\ \A r \in 1..n : Len(b[r]) = n

TileCount(b) == Cardinality({p \in Cells(b) : b[p[1]][p[2]] # 0})

\* The single-pass rule on a gap-free sequence of tiles: pair equal
\* neighbours greedily from the front, a tile made by a pair is final.
RECURSIVE GreedyPairs(_)
GreedyPairs(t) ==
    IF Len(t) < 2 THEN t
    ELSE IF t[1] = t[2]
         THEN <<2 * t[1]>> \o GreedyPairs(SubSeq(t, 3, Len(t)))
         ELSE <<t[1]>> \o GreedyPairs(Tail(t))

\* The values of the tiles the single-pass rule creates, summed.
RECURSIVE GreedyScore(_)
GreedyScore(t) ==
    IF Len(t) < 2 THEN 0
    ELSE IF t[1] = t[2]
         THEN 2 * t[1] + GreedyScore(SubSeq(t, 3, Len(t)))
         ELSE GreedyScore(Tail(t))

\* The non-zero cells of a line, in order.
RECURSIVE Tiles(_)
Tiles(line) ==
    IF Len(line) = 0 THEN <<>>
    ELSE LET rest == Tiles([k \in 1..(Len(line) - 1) |-> line[k + 1]])
         IN  IF line[1] = 0 THEN rest ELSE <<line[1]>> \o rest

PadRight(t, n) == [k \in 1..n |-> IF k <= Len(t) THEN t[k] ELSE 0]

\* The lines of a board as a move in a direction sees them, each read from
\* the edge the direction names: rows from the left or the right, columns
\* from the top or the bottom.
Lines(b, direction) ==
    LET n == Len(b)
    IN  CASE direction = "left"  -> [i \in 1..n |-> b[i]]
          [] direction = "right" -> [i \in 1..n |-> [k \in 1..n |-> b[i][n + 1 - k]]]
          [] direction = "up"    -> [i \in 1..n |-> [k \in 1..n |-> b[k][i]]]
          [] direction = "down"  -> [i \in 1..n |-> [k \in 1..n |-> b[n + 1 - k][i]]]

\* No zero lies between a non-zero cell and the edge the direction names.
PackedToward(b, direction) ==
    LET ls == Lines(b, direction)
    IN  \A i \in 1..Len(ls) : \A j, k \in 1..Len(ls[i]) :
            (j < k /\ ls[i][k] # 0) => ls[i][j] # 0

\* No empty cell and no two equal neighbours in a row or a column.
Stuck(b) ==
    LET n == Len(b)
    IN  /\ \A p \in Cells(b) : b[p[1]][p[2]] # 0
        /\ \A r \in 1..n, c \in 1..(n - 1) : b[r][c] # b[r][c + 1]
        /\ \A r \in 1..(n - 1), c \in 1..n : b[r][c] # b[r + 1][c]

SomeCellAtLeast(b, g) == \E p \in Cells(b) : b[p[1]][p[2]] >= g

RECURSIVE IsPowerOfTwo(_)
IsPowerOfTwo(v) == v >= 2 /\ (v = 2 \/ (v % 2 = 0 /\ IsPowerOfTwo(v \div 2)))

(***************************************************************************)
(* C1. An accepted move: the session board is the moved board plus exactly *)
(* one new tile, 2 or 4, in a cell the moved board had empty, every other  *)
(* cell as in the moved board, and the score grows by the score gained.    *)
(***************************************************************************)
C1_AcceptedMove ==
    [][(call'.op = "perform_move" /\ call'.changed) =>
          /\ apply_move(board, call'.direction) =
                 [board |-> call'.new_board, changed |-> TRUE, gained |-> call'.gained]
          /\ score' = score + call'.gained
          /\ \E p \in Cells(board), v \in {2, 4} :
                 /\ call'.new_board[p[1]][p[2]] = 0
                 /\ \A q \in Cells(board) :
                        board'[q[1]][q[2]] = IF q = p THEN v ELSE call'.new_board[q[1]][q[2]]]_vars

\* an accepted move that merged, scored and spawned
C1_Witness ==
    /\ call.op = "perform_move"
    /\ call.changed
    /\ call.gained > 0
    /\ call.added # <<>>
    /\ score > 0

(***************************************************************************)
(* C2. A move that changes nothing leaves the session as it was: board and *)
(* score (and size and goal) unchanged, no tile spawned.                   *)
(***************************************************************************)
C2_NoOpMove ==
    [][(call'.op = "perform_move" /\ ~call'.changed) =>
          /\ ~apply_move(board, call'.direction).changed
          /\ board' = board
          /\ score' = score
          /\ size' = size
          /\ goal' = goal
          /\ call'.added = <<>>]_vars

\* a move was requested on a board it cannot change, with moves still
\* possible in another direction
C2_Witness ==
    /\ call.op = "perform_move"
    /\ ~call.changed
    /\ score > 0
    /\ any_moves_possible(board)

(***************************************************************************)
(* C3. merge_row_left follows the single-pass rule: the tiles of the row,  *)
(* paired greedily from the left, each pair one tile of double the value,  *)
(* a merged tile final, order kept, zeros on the right.                    *)
(***************************************************************************)
C3_SinglePassMerge ==
    call.op = "merge_row_left" =>
        /\ call.new = PadRight(GreedyPairs(Tiles(row)), Len(row))
        /\ (row = <<2, 2, 2, 2>> => call.new = <<4, 4, 0, 0>>)
        /\ (row = <<2, 2, 4, 0>> => call.new = <<4, 4, 0, 0>>)
        /\ (row = <<2, 0, 2, 0>> => call.new = <<4, 0, 0, 0>>)

\* a row whose first merge makes a tile equal to its new neighbour
C3_Witness ==
    /\ call.op = "merge_row_left"
    /\ row = <<2, 2, 4, 0>>
    /\ call.new = <<4, 4, 0, 0>>

(***************************************************************************)
(* C4. The score a move gains is the sum of the values of the tiles its    *)
(* merges create, 0 when nothing merges, never negative.                   *)
(***************************************************************************)
C4_ScoreGained ==
    call.op = "apply_move" =>
        LET ls == Lines(board, call.direction)
        IN  /\ call.gained = SumSeq([i \in 1..Len(ls) |-> GreedyScore(Tiles(ls[i]))])
            /\ call.gained >= 0
            /\ (TileCount(call.new_board) = TileCount(board) => call.gained = 0)

\* a move with a merge in two lines at once
C4_Witness ==
    /\ call.op = "apply_move"
    /\ TileCount(call.new_board) = TileCount(board) - 2
    /\ call.gained > 0

(***************************************************************************)
(* C5. changed is true exactly when the returned board differs from the    *)
(* input board in some cell, in each of the four directions.               *)
(***************************************************************************)
C5_ChangedIffDiffers ==
    call.op = "apply_move" =>
        (call.changed <=> \E p \in Cells(board) :
                              call.new_board[p[1]][p[2]] # board[p[1]][p[2]])

\* a vertical move that only slides: changed without any merge
C5_Witness ==
    /\ call.op = "apply_move"
    /\ call.direction \in {"up", "down"}
    /\ call.changed
    /\ call.gained = 0
    /\ call.new_board # board

(***************************************************************************)
(* C6. Each direction packs the tiles toward the edge it names, row 1 the  *)
(* top row and column 1 the left column: after a move no zero lies between *)
(* a tile and that edge.                                                   *)
(***************************************************************************)
C6_PacksTowardNamedEdge ==
    call.op = "apply_move" => PackedToward(call.new_board, call.direction)

(***************************************************************************)
(* C7. On a board with no empty cell and no equal neighbours                *)
(* any_moves_possible is false, each of the four moves returns the board   *)
(* unchanged with changed false and score 0, and a move request leaves     *)
(* board, score and notice alone and spawns nothing.                       *)
(***************************************************************************)
C7_LostIsAbsorbing ==
    [][Stuck(board) =>
          /\ ~any_moves_possible(board)
          /\ \A d \in Directions :
                 apply_move(board, d) = [board |-> board, changed |-> FALSE, gained |-> 0]
          /\ (call'.op = "perform_move" =>
                 /\ board' = board
                 /\ score' = score
                 /\ popup' = popup
                 /\ ~call'.changed
                 /\ call'.added = <<>>)]_vars

\* a move was requested on a board that is full with no equal neighbours
C7_Witness ==
    /\ call.op = "perform_move"
    /\ ~call.changed
    /\ Stuck(board)
    /\ popup = "Game over"

(***************************************************************************)
(* C8. The notice of draw_board: won whenever some cell is at least the    *)
(* goal, also on a board with no move left; lost only when no cell is at   *)
(* least the goal and no move is possible; otherwise neither.              *)
(***************************************************************************)
C8_WinBeforeLoss ==
    call.op = "draw_board" =>
        LET won == SomeCellAtLeast(board, goal)
        IN  /\ won => popup = "You win!"
            /\ popup = "Game over" <=> (~won /\ Stuck(board))
            /\ (~won /\ ~Stuck(board)) => popup = "none"

\* a board at the goal with no move left is reported won
C8_Witness ==
    /\ call.op = "draw_board"
    /\ Stuck(board)
    /\ SomeCellAtLeast(board, goal)
    /\ popup = "You win!"

(***************************************************************************)
(* C9. Right after creation and right after every restart the score is 0   *)
(* and the N x N board holds exactly two tiles, each 2 or 4; restart keeps *)
(* size and goal.                                                          *)
(***************************************************************************)
C9_NewGame ==
    call.op \in {"__init__", "restart"} =>
        /\ score = 0
        /\ IsSquare(board, size)
        /\ TileCount(board) = 2
        /\ \A p \in Cells(board) : board[p[1]][p[2]] \in {0, 2, 4}
        /\ (call.op = "restart" => size = call.before.size /\ goal = call.before.goal)

\* a restart has left a fresh board
C9_Witness ==
    /\ call.op = "restart"
    /\ score = 0
    /\ TileCount(board) = 2

(***************************************************************************)
(* C10. In every state of a session the board is N x N and every non-zero  *)
(* cell is a power of two, at least 2.                                     *)
(***************************************************************************)
C10_PowersOfTwo ==
    /\ IsSquare(board, size)
    /\ \A p \in Cells(board) : board[p[1]][p[2]] = 0 \/ IsPowerOfTwo(board[p[1]][p[2]])

\* an accepted move has left a merged tile on the board
C10_Witness ==
    /\ call.op = "perform_move"
    /\ call.changed
    /\ \E p \in Cells(board) : board[p[1]][p[2]] >= 8

(***************************************************************************)
(* C11. The score is 0 when the session is created; no move request,       *)
(* accepted or not, lowers it; it changes only in an accepted move or in   *)
(* restart; and only restart lowers it, to 0.                              *)
(***************************************************************************)
C11_ScoreMonotone ==
    /\ score = 0
    /\ [][/\ call'.op = "restart" => score' = 0
          /\ call'.op # "restart" => score' >= score
          /\ score' # score =>
                 \/ call'.op = "restart"
                 \/ call'.op = "perform_move" /\ call'.changed]_vars

\* an accepted move that gained nothing, in a session that had scored
C11_Witness ==
    /\ call.op = "perform_move"
    /\ call.changed
    /\ call.gained = 0
    /\ score > 0
    /\ moves = MaxMoves

(***************************************************************************)
(* C13. A move requested with a direction outside left, right, up, down    *)
(* fails with the invalid-direction error, and only such a request does;   *)
(* the failed request leaves board, score, size, goal and notice as they   *)
(* were and spawns nothing; the request after a failed one is served as    *)
(* any other: a valid direction gives the move apply_move computes on the  *)
(* untouched board.                                                        *)
(***************************************************************************)
C13_InvalidDirection ==
    [][/\ call'.op \in {"perform_move", "ValueError"} =>
              (call'.op = "ValueError" <=> call'.direction \notin Directions)
       /\ call'.op = "ValueError" =>
              /\ apply_move(board, call'.direction) = ValueError
              /\ board' = board
              /\ score' = score
              /\ size' = size
              /\ goal' = goal
              /\ popup' = popup
       /\ (call.op = "ValueError" /\ call'.op = "perform_move") =>
              /\ call'.direction \in Directions
              /\ LET m == apply_move(board, call'.direction)
                 IN  /\ call'.changed = m.changed
                     /\ call'.new_board = m.board
                     /\ score' = score + (IF m.changed THEN m.gained ELSE 0)
                     /\ m.changed <=> board' # board]_vars

\* a request with an invalid direction failed in a session under way that
\* can still accept a move
C13_Witness ==
    /\ call.op = "ValueError"
    /\ call.direction \in InvalidDirections
    /\ score > 0
    /\ moves > 0
    /\ \E d \in Directions : apply_move(board, d).changed

(***************************************************************************)
(* C16. Whenever a move in any direction returns changed = true, the board *)
(* it returns has an empty cell, so the add_random_tile that follows in    *)
(* perform_move always places a tile: its branch for a board without       *)
(* empty cells is not taken.                                               *)
(***************************************************************************)
C16_ChangedLeavesEmpty ==
    (call.op = "apply_move" /\ call.changed) =>
        /\ TileCount(board) > 0
        /\ get_empty_positions(call.new_board) # <<>>
        /\ \A t \in add_random_tile(call.new_board) :
               t.added # <<>> /\ t.board # call.new_board

\* a move changed a board that had no empty cell
C16_Witness ==
    /\ call.op = "apply_move"
    /\ call.changed
    /\ get_empty_positions(board) = <<>>
    /\ get_empty_positions(call.new_board) # <<>>

(***************************************************************************)
(* C17. In every state of a session any_moves_possible(board) is true      *)
(* exactly when at least one of the four directions returns changed =      *)
(* true, and the session shows no notice (is in progress) only while some  *)
(* move can change the board.                                              *)
(***************************************************************************)
C17_MovesPossibleIffSomeMoveChanges ==
    LET some == \E d \in Directions : apply_move(board, d).changed
    IN  /\ any_moves_possible(board) <=> some
        /\ draw_board(board, goal) = "none" => some
        /\ popup = "none" => some

\* a session arrived at a board no direction changes
C17_Witness ==
    /\ moves > 0
    /\ ~any_moves_possible(board)
    /\ \A d \in Directions : ~apply_move(board, d).changed
    /\ popup # "none"

(***************************************************************************)
(* C18. Won is stable.  The largest tile of the board never gets smaller,  *)
(* neither by the move nor by the spawn of a request; so once some cell is *)
(* at least the goal this stays so, and the win notice stays, after every  *)
(* later request until restart; and a request made in that state is        *)
(* served like any other: it is accepted exactly when the move changes     *)
(* the board.                                                              *)
(***************************************************************************)
LargestTile(b) == CHOOSE v \in {b[p[1]][p[2]] : p \in Cells(b)} :
                      \A q \in Cells(b) : b[q[1]][q[2]] <= v

C18_WonIsStable ==
    [][/\ call'.op = "perform_move" =>
              /\ LargestTile(call'.new_board) >= LargestTile(board)
              /\ LargestTile(board') >= LargestTile(call'.new_board)
       /\ (call'.op # "restart" /\ reached_goal(board, goal)) =>
              /\ reached_goal(board', goal)
              /\ popup = "You win!"
              /\ popup' = "You win!"
              /\ call'.op = "perform_move" =>
                     call'.changed = apply_move(board, call'.direction).changed]_vars

\* a move was accepted on a board that had already reached the goal (it
\* merged nothing, so the tiles it slid were those of the board before)
C18_Witness ==
    /\ call.op = "perform_move"
    /\ call.changed
    /\ call.gained = 0
    /\ reached_goal(call.new_board, goal)
    /\ popup = "You win!"

(***************************************************************************)
(* C19. The move of a request, in any direction, keeps the sum of all      *)
(* cells, and takes away as many tiles as it makes merges; so a request    *)
(* that is not accepted keeps the board's total and an accepted one raises *)
(* it by exactly the value of the spawned tile, 2 or 4.                    *)
(***************************************************************************)
BoardSum(b) == SumSeq(List(Len(b), LAMBDA r : SumSeq(b[r])))

\* The merges the single-pass rule makes in a gap-free sequence of tiles.
RECURSIVE GreedyMerges(_)
GreedyMerges(t) ==
    IF Len(t) < 2 THEN 0
    ELSE IF t[1] = t[2]
         THEN 1 + GreedyMerges(SubSeq(t, 3, Len(t)))
         ELSE GreedyMerges(Tail(t))

\* The merges of a move: those of each line, read from the edge of the move.
MergesOf(b, direction) ==
    LET ls == Lines(b, direction)
    IN  SumSeq(List(Len(ls), LAMBDA i : GreedyMerges(Tiles(ls[i]))))

C19_SumPreserved ==
    [][call'.op = "perform_move" =>
          /\ BoardSum(call'.new_board) = BoardSum(board)
          /\ TileCount(board) - TileCount(call'.new_board) =
                 MergesOf(board, call'.direction)
          /\ IF call'.changed
             THEN /\ call'.added # <<>>
                  /\ call'.added[3] \in {2, 4}
                  /\ BoardSum(board') = BoardSum(board) + call'.added[3]
                  /\ TileCount(board') = TileCount(call'.new_board) + 1
             ELSE BoardSum(board') = BoardSum(board)]_vars

\* an accepted second move merged, scoring at least 8, and spawned a tile
C19_Witness ==
    /\ call.op = "perform_move"
    /\ call.changed
    /\ TileCount(call.new_board) = 2
    /\ call.gained >= 8
    /\ TileCount(board) = 3
    /\ moves > 1

(***************************************************************************)
(* C12. As claimed: a direction applied twice in a row, with no spawn in   *)
(* between, is at its fixed point after the first application; the second *)
(* returns changed = false and the board the first returned.               *)
(***************************************************************************)
C12_SecondApplicationIdle ==
    call.op = "apply_move twice" =>
        /\ ~call.second.changed
        /\ call.second.board = call.first.board

(***************************************************************************)
(* C12, amended. The second application returns changed = false and the   *)
(* board the first returned whenever the first merged nothing, and on      *)
(* every board of side 2; after a first application that merged, the       *)
(* second can merge again, and on a board of side N the fixed point is     *)
(* reached within N - 1 applications: the N-th changes nothing.            *)
(***************************************************************************)
C12_FixedPointWithoutMerge ==
    call.op = "apply_move twice" =>
        /\ (call.first.gained = 0 \/ size = 2) =>
               /\ ~call.second.changed
               /\ call.second.board = call.first.board
               /\ call.second.gained = 0
        /\ call.second.changed => call.second.gained > 0
        /\ LET b == IF size = 2 THEN call.first.board
                    ELSE Repeated(call.second.board, call.direction, size - 3)
           IN  apply_move(b, call.direction) = [board |-> b, changed |-> FALSE, gained |-> 0]

\* a first application slid tiles without merging and the second found
\* nothing to do
C12_Witness ==
    /\ call.op = "apply_move twice"
    /\ size > 2
    /\ call.first.changed
    /\ call.first.gained = 0
    /\ TileCount(board) = MaxTiles
    /\ ~call.second.changed

(***************************************************************************)
(* C14. A session asked for with a size below 2 is rejected before a board *)
(* is built: for such a size the constructor never completes, no board of  *)
(* that size (nor of any other) is built, and no session operation runs.   *)
(***************************************************************************)
C14_SmallSizeRejected ==
    size < 2 =>
        /\ call.op = "none"
        /\ board = <<>>

(***************************************************************************)
(* C15. The spawn is a function of the board and the draws of the injected *)
(* generator alone: two calls of add_random_tile on the same board with    *)
(* the same injected draw give the same board and the same added tile,     *)
(* whatever the state of the global generator.                             *)
(***************************************************************************)
C15_SpawnFromInjectedDraws ==
    call.op = "add_random_tile" =>
        /\ call.first.board = call.second.board
        /\ call.first.added = call.second.added

(***************************************************************************)
(* C20. Without restart a session has no infinite sequence of accepted     *)
(* moves: in every play, however long the player goes on, the board stops  *)
(* changing for good after finitely many accepted moves (fewer than the    *)
(* cap of the model, which therefore holds no move back); a board that no  *)
(* direction changes is one on which any_moves_possible is false, and      *)
(* every request made on it is a no-op.  Each accepted move raises the     *)
(* board's total, which the size bounds.                                   *)
(***************************************************************************)
C20_PlayEnds ==
    /\ <>[][board' = board]_vars
    /\ [](moves < MaxPlay)
    /\ []((\A d \in Directions : ~apply_move(board, d).changed) <=>
              ~any_moves_possible(board))
    /\ [][/\ ~any_moves_possible(board) =>
                 /\ ~call'.changed
                 /\ board' = board
                 /\ score' = score
          /\ call'.changed => BoardSum(board') > BoardSum(board)]_vars

\* a play has ended, after more accepted moves than Spec explores and
\* fewer than the cap: a request was made on a board without moves
C20_Witness ==
    /\ ~any_moves_possible(board)
    /\ call.op = "perform_move"
    /\ ~call.changed
    /\ moves > MaxMoves + 1
    /\ moves < MaxPlay
====
